---- MODULE Spec2Model ----
(***************************************************************************)
(* pygicord: reaction-driven pagination sessions.                          *)
(*                                                                         *)
(* The repository holds three revisions of the session class:              *)
(*   Base       pygicord/base.py       (controls declared with @control)   *)
(*   Paginator  pygicord/paginator.py  (built-in controls, handler tasks)  *)
(*   Legacy     pygicord/__init__.py   (package-level Paginator, embeds)   *)
(* One behaviour of the model constructs one session of one of the three   *)
(* classes (cls) and then runs it; the attributes the classes share        *)
(* (pages, index, running flag, task list, message, lock-owner) are the    *)
(* same variables.                                                         *)
(***************************************************************************)
EXTENDS Integers, Sequences, FiniteSets, Bags, TLC

VARIABLES
    cls,          \* class of the session constructed in this behaviour
    pages,        \* self.pages (Legacy: self.embeds once paginate ran), page kinds
    embed_links,  \* Base.embed_links option
    is_compact,   \* Paginator._is_compact / Legacy.compact option
    ctx,          \* invocation context: [guild, perms]
    author,       \* Base.author / Paginator._author (the lock-owner), "None" when unset
    message,      \* self.message (Legacy: self.embed), "None" before the first send
    index,        \* Base._index / Paginator._index / Legacy.current
    controller,   \* active control set, in order: Base.controller keys /
                  \* Paginator._reactions keys / Legacy.__reactions keys
    running,      \* _is_running / __is_running
    tasks,        \* the session's task list __tasks
    st,           \* position of the constructor / start coroutine
    run,          \* position of the dispatch-loop task (_run / paginator)
    adder,        \* position of the add_reactions task
    stop_action,  \* action of the StopPagination caught by Base._run
    error,        \* exception that escaped to the caller or ended a task
    msg_alive,    \* platform: the session's message still exists
    shown,        \* platform: index of the page the message shows (-1: none)
    sends,        \* calls of ctx.send for the paged message
    deletes,      \* calls of message.delete
    clears,       \* calls of message.clear_reactions
    handlers,     \* Paginator: bag of controller tasks in flight (not in __tasks)
    lock,         \* Paginator.__lock is held
    previous,     \* Legacy.previous
    controls,     \* Base: __controls__ of the session's class
    restarts,     \* Base: calls of start after the first one
    superseded    \* Base: position at which a later start cancelled the
                  \* dispatch-loop task then running, "none" otherwise

vars == <<cls, pages, embed_links, is_compact, ctx, author, message, index,
          controller, running, tasks, st, run, adder, stop_action, error,
          msg_alive, shown, sends, deletes, clears, handlers, lock, previous,
          controls, restarts, superseded>>

other == <<handlers, lock, previous>>

----------------------------------------------------------------------------
(* Bounds of the model *)

MaxPages == 5
MaxHandlers == 2
MaxRestarts == 1

----------------------------------------------------------------------------
(* Environment: users, messages, capabilities, page payloads *)

None == "None"
Author == "author"
Bot == "bot"
Users == {Author, "other", Bot}
SessionMsg == "m"
Msgs == {SessionMsg, "x"}

Caps == {"send_messages", "embed_links", "add_reactions",
         "use_external_emojis", "read_message_history"}

PageKinds == {"str", "embed"}

\* Page lists handed to a constructor: 0..MaxPages embeds, one or two text
\* pages, or a text page followed by an embed.
PageLists ==
    {[i \in 1..n |-> "embed"] : n \in 0..MaxPages}
    \cup {<<"str">>, <<"str", "str">>, <<"str", "embed">>}

\* The `pages` argument: a list, or one bare page (not in a list).
PageInputs ==
    {[bare |-> FALSE, items |-> l] : l \in PageLists}
    \cup {[bare |-> TRUE, items |-> <<k>>] : k \in PageKinds}

\* Invocation contexts: a DM (ctx.guild is None) or a guild channel where
\* the bot holds the capabilities perms.
Contexts ==
    {[guild |-> FALSE, perms |-> Caps]}
    \cup {[guild |-> TRUE, perms |-> P] : P \in SUBSET Caps}

NoCtx == [guild |-> FALSE, perms |-> {}]

Range(s) == {s[i] : i \in 1..Len(s)}

----------------------------------------------------------------------------
(* Controls (control.py) and the controls declared on the Base subclass *)

\* Emojis named in reaction events of a Base session.
BaseEmojis == {"stop", "goto", "home", "unknown"}

\* __controls__ of the session class, in declaration order: the stop control
\* of examples/new_paginator.py and a navigation control whose callback
\* calls show_page / assigns index.
BaseControls ==
    << [emoji |-> "goto", position |-> 0, display |-> <<>>, invoke |-> <<>>,
        callback |-> "show_page"],
       [emoji |-> "stop", position |-> 2,
        display |-> <<"stop_display_if">>, invoke |-> <<"stop_invoke_if">>,
        callback |-> "DELETE_MESSAGE"] >>

\* Controls declared in the body of a class derived from that one: a
\* control that jumps to the first page, shown for more than two and fewer
\* than MaxPages pages, at the position of goto; and a stop control with the
\* inherited emoji, at the same position, that the author may invoke on the
\* pages between the first and the last and that raises
\* StopPagination(StopAction.DO_NOTHING).
DerivedControls ==
    << [emoji |-> "home", position |-> 0,
        display |-> <<"home_display_if", "home_display_if_short">>,
        invoke |-> <<>>, callback |-> "show_page"],
       [emoji |-> "stop", position |-> 0,
        display |-> <<>>,
        invoke |-> <<"stop_invoke_if", "not_first_page", "not_last_page">>,
        callback |-> "DO_NOTHING"] >>

\* The controls in the __dict__ of a class; Base and object declare none.
ClassControls(name) ==
    CASE name = "Session" -> BaseControls
      [] name = "Derived" -> DerivedControls
      [] OTHER -> <<>>

\* __mro__ of the session classes.
Mros == {<<"Session", "Base", "object">>,
         <<"Derived", "Session", "Base", "object">>}

\* _BaseMeta.__new__: the controls of reversed(cls_.__mro__), each class's
\* in the order of its __dict__.
RECURSIVE Controls(_)
Controls(mro) ==
    IF mro = <<>> THEN <<>>
    ELSE Controls(Tail(mro)) \o ClassControls(Head(mro))

\* A display predicate applied to a session with n pages.
DisplayPred(pred, n) ==
    CASE pred = "stop_display_if" -> n > 1
      [] pred = "home_display_if" -> n > 2
      [] pred = "home_display_if_short" -> n < MaxPages
      [] OTHER -> TRUE

\* An invoke predicate applied to the session and a payload.
InvokePred(pred, payload) ==
    CASE pred = "stop_invoke_if" -> payload.user_id = Author
      [] pred = "not_first_page" -> index > 0
      [] pred = "not_last_page" -> index < Len(pages) - 1
      [] OTHER -> TRUE

\* A control displayed when some predicate of its list passes.
ShouldDisplayAny(preds, i, n) == \E k \in i..Len(preds) : DisplayPred(preds[k], n)

\* Control.should_display: the first failing predicate returns False.
RECURSIVE ShouldDisplayFrom(_, _, _)
ShouldDisplayFrom(preds, i, n) ==
    IF i > Len(preds) THEN TRUE
    ELSE IF ~DisplayPred(preds[i], n) THEN FALSE
    ELSE ShouldDisplayFrom(preds, i + 1, n)

should_display(c, n) == ShouldDisplayFrom(c.display, 1, n)

\* A call decided by the predicate attached last.
InvokeAllowedLast(preds, i, payload) ==
    Len(preds) < i \/ InvokePred(preds[Len(preds)], payload)

\* Control.__call__: TRUE when every invoke predicate passes, so that the
\* callback is awaited.
RECURSIVE InvokeAllowedFrom(_, _, _)
InvokeAllowedFrom(preds, i, payload) ==
    IF i > Len(preds) THEN TRUE
    ELSE IF ~InvokePred(preds[i], payload) THEN FALSE
    ELSE InvokeAllowedFrom(preds, i + 1, payload)

ControlCall(c, payload) == InvokeAllowedFrom(c.invoke, 1, payload)

\* Control.__call__: the predicates the loop calls, in order; the loop
\* returns at the first one that fails.
RECURSIVE InvokeEvaluatedFrom(_, _, _)
InvokeEvaluatedFrom(preds, i, payload) ==
    IF i > Len(preds) THEN <<>>
    ELSE IF ~InvokePred(preds[i], payload) THEN <<preds[i]>>
    ELSE <<preds[i]>> \o InvokeEvaluatedFrom(preds, i + 1, payload)

\* _BaseMeta.get_controller: a dict keyed by emoji; a later declaration with
\* the same emoji replaces the value and keeps the first one's place.
RECURSIVE get_controller(_)
get_controller(cs) ==
    IF cs = <<>> THEN <<>>
    ELSE LET rest == get_controller(SubSeq(cs, 1, Len(cs) - 1))
             c == cs[Len(cs)]
         IN IF \E i \in 1..Len(rest) : rest[i].emoji = c.emoji
            THEN [i \in 1..Len(rest) |->
                     IF rest[i].emoji = c.emoji THEN c ELSE rest[i]]
            ELSE Append(rest, c)

\* A sort that puts an element before the elements of its position.
RECURSIVE SortByPositionUnstable(_)
SortByPositionUnstable(cs) ==
    IF cs = <<>> THEN <<>>
    ELSE LET rest == SortByPositionUnstable(SubSeq(cs, 1, Len(cs) - 1))
             c == cs[Len(cs)]
             k == Cardinality({i \in 1..Len(rest) : rest[i].position < c.position})
         IN SubSeq(rest, 1, k) \o <<c>> \o SubSeq(rest, k + 1, Len(rest))

\* sorted(..., key=lambda c: c.position): a stable sort (insertion of each
\* element after the elements whose position is not greater).
RECURSIVE SortByPosition(_)
SortByPosition(cs) ==
    IF cs = <<>> THEN <<>>
    ELSE LET rest == SortByPosition(SubSeq(cs, 1, Len(cs) - 1))
             c == cs[Len(cs)]
             k == Cardinality({i \in 1..Len(rest) : rest[i].position <= c.position})
         IN SubSeq(rest, 1, k) \o <<c>> \o SubSeq(rest, k + 1, Len(rest))

\* Base.controller: the sorted controls that should be displayed.  The
\* property is cached; the display predicates read only len(pages), which
\* does not change, so the value is computed where start drops the cache.
BaseController(ctl, n) ==
    SelectSeq(SortByPosition(ctl), LAMBDA c : should_display(c, n))

Keys(ctl) == {ctl[i].emoji : i \in 1..Len(ctl)}

ControlOf(ctl, emoji) == ctl[CHOOSE i \in 1..Len(ctl) : ctl[i].emoji = emoji]

----------------------------------------------------------------------------
(* Base (base.py) *)

Payloads(emojis) ==
    [user_id : Users, message_id : Msgs, emoji : emojis]

\* The setter without the upper half of its range test.
IndexSetterNoUpper(cur, i, n) == IF 0 <= i THEN i ELSE cur

\* Base.index setter
IndexSetter(cur, i, n) == IF 0 <= i /\ i < n THEN i ELSE cur

\* Reactions for every non-empty page list.
should_add_reactions_any(n) == n > 0

\* Base.should_add_reactions / Paginator.should_add_reactions
should_add_reactions(n) == n > 1

\* Base._check.  Python parses `a or b and c and d and e` as
\* `a or (b and c and d and e)`.
BaseCheck(payload) ==
    \/ author = None
    \/ /\ payload.user_id = author
       /\ payload.user_id # Bot
       /\ payload.message_id = message
       /\ payload.emoji \in Keys(controller)

\* The permission check with the reaction capabilities tested first.
ensure_permissions_reordered(perms, el, n) ==
    IF should_add_reactions(n) /\ "add_reactions" \notin perms
    THEN "CannotAddReactions"
    ELSE IF "send_messages" \notin perms THEN "CannotSendMessages"
    ELSE IF el /\ "embed_links" \notin perms THEN "CannotEmbedLinks"
    ELSE IF should_add_reactions(n) /\ "use_external_emojis" \notin perms
         THEN "CannotUseExternalEmojis"
    ELSE IF should_add_reactions(n) /\ "read_message_history" \notin perms
         THEN "CannotReadMessageHistory"
    ELSE None

\* Base._ensure_permissions: the exception raised, or None.
ensure_permissions(perms, el, n) ==
    IF "send_messages" \notin perms THEN "CannotSendMessages"
    ELSE IF el /\ "embed_links" \notin perms THEN "CannotEmbedLinks"
    ELSE IF should_add_reactions(n) /\ "add_reactions" \notin perms
         THEN "CannotAddReactions"
    ELSE IF should_add_reactions(n) /\ "use_external_emojis" \notin perms
         THEN "CannotUseExternalEmojis"
    ELSE IF should_add_reactions(n) /\ "read_message_history" \notin perms
         THEN "CannotReadMessageHistory"
    ELSE None

Init ==
    /\ cls = None
    /\ pages = <<>>
    /\ embed_links = TRUE
    /\ is_compact = FALSE
    /\ ctx = NoCtx
    /\ author = None
    /\ message = None
    /\ index = 0
    /\ controller = <<>>
    /\ running = FALSE
    /\ tasks = <<>>
    /\ st = "none"
    /\ run = "none"
    /\ adder = "none"
    /\ stop_action = None
    /\ error = None
    /\ msg_alive = FALSE
    /\ shown = -1
    /\ sends = 0
    /\ deletes = 0
    /\ clears = 0
    /\ handlers = EmptyBag
    /\ lock = FALSE
    /\ previous = 0
    /\ controls = <<>>
    /\ restarts = 0
    /\ superseded = "none"

\* Base.__init__(pages=p, embed_links=el): a bare page is wrapped in a list,
\* an empty list raises ValueError.
BaseConstruct ==
    /\ cls = None
    /\ \E p \in PageInputs, el \in BOOLEAN, mro \in Mros :
        /\ cls' = "Base"
        /\ controls' = Controls(mro)
        /\ pages' = p.items
        /\ embed_links' = el
        /\ IF Len(p.items) = 0
           THEN /\ error' = "ValueError"
                /\ st' = "raised"
                /\ controller' = controller
           ELSE /\ error' = error
                /\ st' = "constructed"
                /\ controller' = get_controller(Controls(mro))
    /\ UNCHANGED <<other, restarts, superseded, is_compact, ctx, author, message,
                   index, running, tasks, run, adder, stop_action, msg_alive,
                   shown, sends, deletes, clears>>

\* A start that sets the flag and creates the tasks before it sends.
BaseStartTasksFirst ==
    /\ cls = "Base"
    /\ st = "constructed"
    /\ \E c \in Contexts :
        /\ ctx' = c
        /\ author' = Author
        /\ LET e == IF c.guild
                    THEN ensure_permissions(c.perms, embed_links, Len(pages))
                    ELSE None
           IN IF e # None
              THEN /\ error' = e
                   /\ st' = "raised"
                   /\ sends' = sends
                   /\ UNCHANGED <<running, tasks, run, adder>>
              ELSE /\ error' = error
                   /\ st' = "sending"
                   /\ sends' = sends + 1
                   /\ IF should_add_reactions(Len(pages))
                      THEN /\ running' = TRUE
                           /\ tasks' = <<"run", "add">>
                           /\ run' = "wait"
                           /\ adder' = "adding"
                      ELSE UNCHANGED <<running, tasks, run, adder>>
    /\ UNCHANGED <<other, cls, controls, restarts, superseded, pages, embed_links, is_compact, message,
                   index, controller, stop_action, msg_alive, shown, deletes,
                   clears>>

\* Base.start up to `await ctx.send(**kwargs)`
BaseStart ==
    /\ cls = "Base"
    /\ st = "constructed"
    /\ \E c \in Contexts :
        /\ ctx' = c
        /\ author' = Author
        /\ LET e == IF c.guild
                    THEN ensure_permissions(c.perms, embed_links, Len(pages))
                    ELSE None
           IN IF e # None
              THEN /\ error' = e
                   /\ st' = "raised"
                   /\ sends' = sends
              ELSE /\ error' = error
                   /\ st' = "sending"
                   /\ sends' = sends + 1
    /\ UNCHANGED <<other, cls, controls, restarts, superseded, pages, embed_links, is_compact, message, index,
                   controller, running, tasks, run, adder, stop_action, msg_alive,
                   shown, deletes, clears>>

\* Base.start from the return of ctx.send: the message is stored and, for
\* more than one page, the running flag is set and the two tasks are created.
BaseStartSent ==
    /\ cls = "Base"
    /\ st = "sending"
    /\ st' = "returned"
    /\ message' = SessionMsg
    /\ msg_alive' = TRUE
    /\ shown' = 0
    /\ IF should_add_reactions(Len(pages))
       THEN /\ running' = TRUE
            /\ controller' = BaseController(get_controller(controls), Len(pages))
            /\ tasks' = <<"run", "add">>
            /\ run' = "wait"
            /\ adder' = "adding"
       ELSE UNCHANGED <<running, controller, tasks, run, adder>>
    /\ UNCHANGED <<other, cls, controls, restarts, superseded, pages, embed_links, is_compact, ctx, author, index,
                   stop_action, error, sends, deletes, clears>>

\* add_reactions (Base, Paginator): `await self.message.add_reaction(emoji)`
\* for every key of the control set.  The loop reads and writes no session
\* state between its awaits, so it is one step here.
AddReactions ==
    /\ adder = "adding"
    /\ adder' = "done"

\* _tasks_cleanup / the cancelling loop of Paginator.stop: every task of
\* __tasks is cancelled and the list is cleared.  A task that has ended is
\* not affected.  When the message was deleted under the reaction-attaching
\* task (gone), its add_reaction may have raised first.
CancelTasks(gone) ==
    /\ tasks' = <<>>
    /\ IF "add" \in Range(tasks) /\ adder = "adding"
       THEN adder' \in (IF gone THEN {"cancelled", "failed"} ELSE {"cancelled"})
       ELSE adder' = adder

\* A finally clause that clears the flag and leaves the tasks alone.
BaseFinallyKeepsTasks(r, gone) ==
    /\ running' = FALSE
    /\ UNCHANGED <<tasks, adder>>
    /\ run' = r

\* A finally clause that leaves the running flag as it is.
BaseFinallyKeepsFlag(r, gone) ==
    /\ running' = running
    /\ CancelTasks(gone)
    /\ run' = r

\* The finally clause of Base._run; r is how the task ends.
BaseFinally(r, gone) ==
    /\ running' = FALSE
    /\ CancelTasks(gone)
    /\ run' = r

BaseAddReactions ==
    /\ cls = "Base"
    /\ AddReactions
    /\ UNCHANGED <<other, cls, controls, restarts, superseded, pages, embed_links, is_compact, ctx, author, message,
                   index, controller, running, tasks, st, run, stop_action, error,
                   msg_alive, shown, sends, deletes, clears>>

\* Base._run: the wait returns `payload`, which passed _check, and
\* `payload = done.pop().result()`; Base.dispatch and Control.__call__ run up
\* to the first await of the callback.
\*   stop: raise StopPagination(action), the action of the control's callback
\*   goto, home: await self.show_page(i)
BaseReceiveOf(payload, i) ==
    /\ cls = "Base"
    /\ run = "wait"
    /\ BaseCheck(payload)
    /\ IF payload.message_id # message
       THEN UNCHANGED <<run, running, adder, tasks, index, deletes,
                        stop_action, error>>
       ELSE IF payload.emoji \notin Keys(controller)
       THEN \* controller.get returns None: TypeError out of the loop
            /\ BaseFinally("failed", FALSE)
            /\ error' = "TypeError"
            /\ UNCHANGED <<index, deletes, stop_action>>
       ELSE IF ~ControlCall(ControlOf(controller, payload.emoji), payload)
       THEN UNCHANGED <<run, running, adder, tasks, index, deletes,
                        stop_action, error>>
       ELSE IF ControlOf(controller, payload.emoji).callback = "DELETE_MESSAGE"
       THEN /\ stop_action' = "DELETE_MESSAGE"
            /\ deletes' = deletes + 1
            /\ run' = "deleting"
            /\ UNCHANGED <<running, adder, tasks, index, error>>
       ELSE IF ControlOf(controller, payload.emoji).callback = "DO_NOTHING"
       THEN \* except StopPagination: `return`, then the finally clause
            /\ stop_action' = "DO_NOTHING"
            /\ BaseFinally("done", FALSE)
            /\ UNCHANGED <<index, deletes, error>>
       ELSE /\ index' = IndexSetter(index, i, Len(pages))
            /\ run' = "editing"
            /\ UNCHANGED <<running, adder, tasks, deletes, stop_action,
                           error>>
    /\ UNCHANGED <<other, cls, controls, restarts, superseded, pages, embed_links, is_compact, ctx, author, message,
                   controller, st, msg_alive, shown, sends, clears>>

BaseReceive ==
    \E payload \in Payloads(BaseEmojis), i \in -1..Len(pages) :
        BaseReceiveOf(payload, i)

\* Base.show_page: message.edit returns, or raises discord.HTTPException,
\* which is no StopPagination: the finally clause runs and the task fails.
BaseEditReturn ==
    /\ cls = "Base"
    /\ run = "editing"
    /\ \E ok \in BOOLEAN :
        IF ok
        THEN /\ shown' = index
             /\ run' = "wait"
             /\ UNCHANGED <<running, adder, tasks, error>>
        ELSE /\ BaseFinally("failed", FALSE)
             /\ error' = "HTTPException"
             /\ shown' = shown
    /\ UNCHANGED <<other, cls, controls, restarts, superseded, pages, embed_links, is_compact, ctx, author, message,
                   index, controller, st, stop_action, msg_alive, sends, deletes,
                   clears>>

\* A wait whose timeout is passed over: the loop waits again.
BaseTimeoutIgnored ==
    /\ cls = "Base"
    /\ run = "wait"
    /\ UNCHANGED vars

\* A timeout that deletes the message as an explicit stop does.
BaseTimeoutDeletes ==
    /\ cls = "Base"
    /\ run = "wait"
    /\ stop_action' = "CLEAR_REACTIONS"
    /\ deletes' = deletes + 1
    /\ run' = "deleting"
    /\ UNCHANGED <<other, cls, controls, restarts, superseded, pages, embed_links, is_compact, ctx, author, message,
                   index, controller, running, tasks, st, adder, error, msg_alive,
                   shown, sends, clears>>

\* Base._run: the wait times out, len(done) == 0:
\* raise StopPagination(StopAction.CLEAR_REACTIONS), caught by the except
\* clause, which awaits message.clear_reactions().
BaseTimeout ==
    /\ cls = "Base"
    /\ run = "wait"
    /\ stop_action' = "CLEAR_REACTIONS"
    /\ clears' = clears + 1
    /\ run' = "clearing"
    /\ UNCHANGED <<other, cls, controls, restarts, superseded, pages, embed_links, is_compact, ctx, author, message,
                   index, controller, running, tasks, st, adder, error, msg_alive,
                   shown, sends, deletes>>

\* A cleanup whose discord.HTTPException is not caught: it leaves the task
\* through the finally clause.
BaseCleanupRaises(ok) ==
    /\ cls = "Base"
    /\ run \in {"deleting", "clearing"}
    /\ msg_alive' = IF ok /\ run = "deleting" THEN FALSE ELSE msg_alive
    /\ BaseFinally(IF ok THEN "done" ELSE "failed", ok /\ run = "deleting")
    /\ error' = IF ok THEN error ELSE "HTTPException"
    /\ UNCHANGED <<other, cls, controls, restarts, superseded, pages, embed_links,
                   is_compact, ctx, author, message, index, controller, st,
                   stop_action, shown, sends, deletes, clears>>

\* Base._run, except StopPagination: message.delete() / clear_reactions()
\* returns or raises discord.HTTPException (return); then the finally clause.
BaseCleanupReturnOf(ok) ==
    /\ cls = "Base"
    /\ run \in {"deleting", "clearing"}
    /\ msg_alive' = IF ok /\ run = "deleting" THEN FALSE ELSE msg_alive
    /\ BaseFinally("done", ok /\ run = "deleting")
    /\ UNCHANGED <<other, cls, controls, restarts, superseded, pages, embed_links, is_compact, ctx, author, message,
                   index, controller, st, stop_action, error, shown, sends, deletes,
                   clears>>

BaseCleanupReturn == \E ok \in BOOLEAN : BaseCleanupReturnOf(ok)

\* Contexts of a later call of start: the one of the call before, or a guild
\* channel where the bot holds no capability.
RestartContexts(c) == {c, [guild |-> TRUE, perms |-> {}]}

\* Base.start called on a session whose start has returned before: the
\* message exists, so nothing is awaited.  The cached controller is dropped
\* (its value is a function of len(pages) and is the same when recomputed),
\* the permissions are checked, and for more than one page _tasks_cleanup
\* cancels the tasks of __tasks, the flag is set and two tasks are created.
\* A dispatch-loop task that was still running has its cancellation
\* scheduled ahead of the first step of the new tasks.
BaseRestart ==
    /\ cls = "Base"
    /\ st = "returned"
    /\ superseded = "none"
    /\ restarts < MaxRestarts
    /\ restarts' = restarts + 1
    /\ \E c \in RestartContexts(ctx) :
        /\ ctx' = c
        /\ author' = Author
        /\ LET e == IF c.guild
                    THEN ensure_permissions(c.perms, embed_links, Len(pages))
                    ELSE None
               live == "run" \in Range(tasks)
           IN IF e # None
              THEN /\ error' = e
                   /\ UNCHANGED <<running, tasks, run, adder, superseded>>
              ELSE /\ error' = error
                   /\ IF should_add_reactions(Len(pages))
                      THEN /\ running' = TRUE
                           /\ tasks' = <<"run", "add">>
                           /\ superseded' = IF live THEN run ELSE "none"
                           /\ run' = IF live THEN "created" ELSE "wait"
                           /\ adder' = IF live THEN "created" ELSE "adding"
                      ELSE UNCHANGED <<running, tasks, run, adder, superseded>>
    /\ UNCHANGED <<other, cls, controls, pages, embed_links, is_compact, message,
                   index, controller, st, stop_action, msg_alive, shown, sends,
                   deletes, clears>>

\* The cancelled dispatch-loop task resumes with CancelledError at its
\* await: no except clause matches, and the finally clause clears the flag
\* and cancels the tasks of __tasks, which by now are those the later start
\* created; a task cancelled before its first step never runs.  The request
\* the task was awaiting may have taken effect on the platform or not.
BaseSupersededTeardown ==
    /\ cls = "Base"
    /\ superseded # "none"
    /\ superseded' = "none"
    /\ running' = FALSE
    /\ tasks' = <<>>
    /\ run' = "cancelled"
    /\ adder' = "cancelled"
    /\ \E took_effect \in BOOLEAN :
        /\ shown' = IF took_effect /\ superseded = "editing" THEN index ELSE shown
        /\ msg_alive' = IF took_effect /\ superseded = "deleting" THEN FALSE
                        ELSE msg_alive
    /\ UNCHANGED <<other, cls, controls, restarts, pages, embed_links, is_compact,
                   ctx, author, message, index, controller, st, stop_action, error,
                   sends, deletes, clears>>

BaseNext ==
    \/ BaseConstruct
    \/ BaseStart
    \/ BaseStartSent
    \/ BaseAddReactions
    \/ BaseReceive
    \/ BaseEditReturn
    \/ BaseTimeout
    \/ BaseCleanupReturn

----------------------------------------------------------------------------
(* Paginator (paginator.py) *)

\* Paginator._reactions as built by __init__: emoji -> control name, in
\* insertion order.
PagReactions ==
    << [emoji |-> "rewind", control |-> "first"],
       [emoji |-> "left", control |-> "previous"],
       [emoji |-> "square", control |-> "stop"],
       [emoji |-> "right", control |-> "next"],
       [emoji |-> "forward", control |-> "last"],
       [emoji |-> "numbers", control |-> "input"],
       [emoji |-> "padlock", control |-> "lock"] >>

PagEmojis == Keys(PagReactions) \cup {"unknown"}

\* Paginator.max_pages
max_pages(n) == n - 1

\* A compact set only where the option asks for it.
IsCompactOption(compact, n) == compact

\* Paginator.is_compact (the property)
IsCompact(compact, n) == compact \/ n <= 3

\* Paginator._prepare_reactions: three keys are deleted when compact.
prepare_reactions(rs, compact, n) ==
    IF IsCompact(compact, n)
    THEN SelectSeq(rs, LAMBDA r : r.emoji \notin {"rewind", "forward", "numbers"})
    ELSE rs

\* self._reactions.get(str(payload.emoji))
ReactionsGet(rs, emoji) ==
    IF emoji \in Keys(rs)
    THEN rs[CHOOSE i \in 1..Len(rs) : rs[i].emoji = emoji].control
    ELSE None

\* Paginator.check.  Python parses `a or b and c and d` as `a or (b and c and d)`.
PagCheck(payload) ==
    \/ author = None
    \/ /\ payload.user_id = author
       /\ payload.message_id = message
       /\ payload.emoji \in Keys(controller)

\* The permission check with embed-links required whatever the pages are.
check_permissions_embed_always(perms, ps) ==
    IF "send_messages" \notin perms THEN "CannotSendMessages"
    ELSE IF "embed_links" \notin perms THEN "CannotEmbedLinks"
    ELSE IF should_add_reactions(Len(ps)) /\ "add_reactions" \notin perms
         THEN "CannotAddReactions"
    ELSE IF should_add_reactions(Len(ps)) /\ "use_external_emojis" \notin perms
         THEN "CannotUseExternalEmojis"
    ELSE IF should_add_reactions(Len(ps)) /\ "read_message_history" \notin perms
         THEN "CannotReadMessageHistory"
    ELSE None

\* Paginator._check_permissions: the exception raised, or None.
check_permissions(perms, ps) ==
    LET el == \E i \in 1..Len(ps) : ps[i] = "embed"
        n == Len(ps)
    IN IF "send_messages" \notin perms THEN "CannotSendMessages"
       ELSE IF el /\ "embed_links" \notin perms THEN "CannotEmbedLinks"
       ELSE IF should_add_reactions(n) /\ "add_reactions" \notin perms
            THEN "CannotAddReactions"
       ELSE IF should_add_reactions(n) /\ "use_external_emojis" \notin perms
            THEN "CannotUseExternalEmojis"
       ELSE IF should_add_reactions(n) /\ "read_message_history" \notin perms
            THEN "CannotReadMessageHistory"
       ELSE None

\* The navigation branches without the range check.
ControllerIndexNoFallback(control, idx, n) ==
    CASE control = "first" -> 0
      [] control = "previous" -> idx - 1
      [] control = "next" -> idx + 1
      [] control = "last" -> max_pages(n)
      [] OTHER -> idx

\* Paginator.controller, the navigation branches: the index after the
\* assignment and the range check that restores the fallback.
ControllerIndex(control, idx, n) ==
    LET t == CASE control = "first" -> 0
               [] control = "previous" -> idx - 1
               [] control = "next" -> idx + 1
               [] control = "last" -> max_pages(n)
               [] OTHER -> idx
    IN IF t < 0 \/ t > max_pages(n) THEN idx ELSE t

\* Paginator.get_input: the index after a reply whose content is the number k.
InputIndex(idx, k, n) ==
    IF 0 <= k - 1 /\ k - 1 <= max_pages(n) THEN k - 1
    ELSE IF k - 1 > max_pages(n) THEN max_pages(n)
    ELSE idx

\* A controller task suspended at an await.  pc: the await; fallback: its
\* local `fallback` while it is still read; page: the index whose page an
\* edit sends (pc editing), or 1 when get_input's `message` is bound (pc
\* cleanup).
Handler(pc, fallback, page) == [pc |-> pc, fallback |-> fallback, page |-> page]

\* The tasks in flight with handler h added / ended.
Spawn(hs, h) == hs (+) SetToBag({h})
Ended(hs, h) == hs (-) SetToBag({h})

\* Messages a jump-to-page prompt may see: author, channel and content (the
\* number n, or text that is no number).
Replies ==
    [author : {Author}, channel : {"c"}, digit : {TRUE}, n : 0..(MaxPages + 1)]
    \cup [author : {Author, "other"}, channel : {"c", "d"}, digit : BOOLEAN,
          n : {0}]

\* The check of Paginator.get_input (same operator precedence as check).
InputCheck(m) ==
    \/ author = None
    \/ /\ m.author = author
       /\ m.channel = "c"
       /\ m.digit

\* A jump-to-page press that opens a prompt whatever the lock.
input_allowed_always(locked) == TRUE

\* Paginator.get_input: `if self.__lock.locked(): return`
input_allowed(locked) == ~locked

\* A lock press that toggles while the lock is held.
lock_allowed_any_time(locked, user_id) == user_id = Author

\* Paginator.lock_or_unlock: the two early returns (the lock is held; the
\* presser is not ctx.author).
lock_allowed(locked, user_id) == ~locked /\ user_id = Author

\* Paginator.lock_or_unlock: the new value of _author.
lock_owner_after(owner) == IF owner = None THEN Author ELSE None

\* Paginator.__init__(pages=p, is_compact=c): nothing is validated; a value
\* that is no list is wrapped in one.
PagConstruct ==
    /\ cls = None
    /\ \E p \in PageInputs, c \in BOOLEAN :
        /\ cls' = "Paginator"
        /\ pages' = p.items
        /\ is_compact' = c
    /\ controller' = PagReactions
    /\ st' = "constructed"
    /\ UNCHANGED <<other, controls, restarts, superseded, embed_links, ctx, author, message, index,
                   running, tasks, run, adder, stop_action, error, msg_alive,
                   shown, sends, deletes, clears>>

\* Paginator.start up to `await ctx.send(**kwargs)`; the permissions are
\* those of ctx.me in the channel (ctx.guild is not read); _get_page_kwargs
\* reads pages[0].
PagStart ==
    /\ cls = "Paginator"
    /\ st = "constructed"
    /\ \E c \in Contexts :
        /\ c.guild
        /\ ctx' = c
        /\ author' = Author
        /\ LET e == check_permissions(c.perms, pages)
           IN IF e # None
              THEN /\ error' = e
                   /\ st' = "raised"
                   /\ sends' = sends
              ELSE IF Len(pages) = 0
              THEN /\ error' = "IndexError"
                   /\ st' = "raised"
                   /\ sends' = sends
              ELSE /\ error' = error
                   /\ st' = "sending"
                   /\ sends' = sends + 1
    /\ UNCHANGED <<other, cls, controls, restarts, superseded, pages, embed_links, is_compact, message, index,
                   controller, running, tasks, run, adder, stop_action, msg_alive,
                   shown, deletes, clears>>

\* Paginator.start from the return of ctx.send
PagStartSent ==
    /\ cls = "Paginator"
    /\ st = "sending"
    /\ st' = "returned"
    /\ message' = SessionMsg
    /\ msg_alive' = TRUE
    /\ shown' = 0
    /\ IF should_add_reactions(Len(pages))
       THEN /\ controller' = prepare_reactions(controller, is_compact, Len(pages))
            /\ running' = TRUE
            /\ tasks' = <<"run", "add">>
            /\ run' = "wait"
            /\ adder' = "adding"
       ELSE UNCHANGED <<running, controller, tasks, run, adder>>
    /\ UNCHANGED <<other, cls, controls, restarts, superseded, pages, embed_links, is_compact, ctx, author, index,
                   stop_action, error, sends, deletes, clears>>

PagAddReactions ==
    /\ cls = "Paginator"
    /\ AddReactions
    /\ UNCHANGED <<other, cls, controls, restarts, superseded, pages, embed_links, is_compact, ctx, author, message,
                   index, controller, running, tasks, st, run, stop_action, error,
                   msg_alive, shown, sends, deletes, clears>>

\* Paginator.stop up to `await self.message.delete()`: the flag is cleared,
\* the tasks of __tasks are cancelled and the list is cleared.  r is the
\* state of the dispatch loop after its cancellation.
PagStop(r) ==
    /\ running' = FALSE
    /\ run' = IF "run" \in Range(tasks) THEN r ELSE run
    /\ CancelTasks(FALSE)
    /\ deletes' = deletes + 1

\* The tail of Paginator.controller, run by handler h when get_input or
\* lock_or_unlock has returned: the range check, the comparison with the
\* fallback and the edit.  hs is the tasks in flight without h.
ControllerTail(h, hs) ==
    LET idx == IF index < 0 \/ index > max_pages(Len(pages))
               THEN h.fallback ELSE index
    IN /\ index' = idx
       /\ IF idx = h.fallback
          THEN handlers' = hs
          ELSE handlers' = Spawn(hs, Handler("editing", 0, idx))

\* Paginator._run: the wait returns `payload`, which passed check, and
\* create_task(self.controller(payload)).  The new task is the next to run
\* (the loop's ready queue is first-in first-out), before another event can
\* reach the wait, so its first step up to its first await is part of this
\* action.  In get_input, `await self.ctx.send(...)` and bot.wait_for follow
\* each other with no session state read or written between: one await.
PagReceiveOf(payload) ==
    /\ cls = "Paginator"
    /\ run = "wait"
    /\ BagCardinality(handlers) < MaxHandlers
    /\ PagCheck(payload)
    /\ LET control == ReactionsGet(controller, payload.emoji)
           fallback == index
           idx == ControllerIndex(control, index, Len(pages))
       IN CASE control = "stop" ->
                 \* the dispatch loop is suspended in its wait: cancelled there
                 /\ PagStop("cancelled")
                 /\ handlers' = Spawn(handlers, Handler("deleting", 0, 0))
                 /\ UNCHANGED <<index, lock, author>>
            [] control \in {"first", "previous", "next", "last"} ->
                 /\ index' = idx
                 /\ IF idx = fallback
                    THEN handlers' = handlers
                    ELSE handlers' = Spawn(handlers, Handler("editing", 0, idx))
                 /\ UNCHANGED <<running, run, adder, tasks, deletes,
                                lock, author>>
            [] control = "input" ->
                 \* get_input: return at once when the lock is held
                 /\ IF ~input_allowed(lock)
                    THEN UNCHANGED <<handlers, lock>>
                    ELSE /\ lock' = TRUE
                         /\ handlers' = Spawn(handlers, Handler("input_wait", fallback, 0))
                 /\ UNCHANGED <<index, running, run, adder, tasks,
                                deletes, author>>
            [] control = "lock" ->
                 \* lock_or_unlock(payload.user_id)
                 /\ IF ~lock_allowed(lock, payload.user_id)
                    THEN UNCHANGED <<handlers, lock, author>>
                    ELSE /\ lock' = TRUE
                         /\ author' = lock_owner_after(author)
                         /\ handlers' = Spawn(handlers, Handler("lock_send", fallback, 0))
                 /\ UNCHANGED <<index, running, run, adder, tasks,
                                deletes>>
            [] OTHER ->
                 UNCHANGED <<handlers, index, running, run, adder, tasks,
                             deletes, lock, author>>
    /\ UNCHANGED <<previous, cls, controls, restarts, superseded, pages, embed_links, is_compact, ctx, message,
                   controller, st, stop_action, error, msg_alive, shown, sends,
                   clears>>

PagReceive == \E payload \in Payloads(PagEmojis) : PagReceiveOf(payload)

\* Paginator._run: the wait times out, `return await self.stop()`.  stop
\* cancels the tasks of __tasks, the running dispatch loop among them, and
\* then awaits message.delete() inside that cancelled task.
PagTimeout ==
    /\ cls = "Paginator"
    /\ run = "wait"
    /\ PagStop("stopping")
    /\ UNCHANGED <<other, cls, controls, restarts, superseded, pages, embed_links, is_compact, ctx, author, message,
                   index, controller, st, stop_action, error, msg_alive, shown,
                   sends, clears>>

\* The cancelled dispatch loop at the first suspension of message.delete():
\* CancelledError is thrown into it.  Whether the request had been written
\* before that suspension depends on the HTTP client: both outcomes.
PagRunCancelled ==
    /\ cls = "Paginator"
    /\ run = "stopping"
    /\ run' = "stopped"
    /\ \E sent \in BOOLEAN :
        msg_alive' = IF sent THEN FALSE ELSE msg_alive
    /\ UNCHANGED <<other, cls, controls, restarts, superseded, pages, embed_links, is_compact, ctx, author, message,
                   index, controller, running, tasks, st, adder, stop_action, error,
                   shown, sends, deletes, clears>>

\* A controller task: message.edit returns, or raises discord.HTTPException
\* (NotFound, the message is gone), which nothing catches: the task ends
\* with it.
PagEditReturn ==
    /\ cls = "Paginator"
    /\ \E h \in BagToSet(handlers) :
        /\ h.pc = "editing"
        /\ handlers' = Ended(handlers, h)
        /\ IF msg_alive
           THEN /\ shown' = h.page
                /\ error' = error
           ELSE /\ shown' = shown
                /\ error' = "HTTPException"
    /\ UNCHANGED <<lock, previous, cls, controls, restarts, superseded, pages, embed_links, is_compact, ctx, author,
                   message, index, controller, running, tasks, st, run, adder,
                   stop_action, msg_alive, sends, deletes, clears>>

\* Paginator.stop in a controller task: message.delete() returns or raises
\* discord.HTTPException (passed over).
PagDeleteReturn ==
    /\ cls = "Paginator"
    /\ \E h \in BagToSet(handlers), ok \in BOOLEAN :
        /\ h.pc = "deleting"
        /\ handlers' = Ended(handlers, h)
        /\ msg_alive' = IF ok THEN FALSE ELSE msg_alive
    /\ UNCHANGED <<lock, previous, cls, controls, restarts, superseded, pages, embed_links, is_compact, ctx, author,
                   message, index, controller, running, tasks, st, run, adder,
                   stop_action, error, shown, sends, deletes, clears>>

\* Paginator.lock_or_unlock: ctx.send returns, the lock is released and
\* controller goes on.
PagLockSent ==
    /\ cls = "Paginator"
    /\ \E h \in BagToSet(handlers) :
        /\ h.pc = "lock_send"
        /\ lock' = FALSE
        /\ ControllerTail(h, Ended(handlers, h))
    /\ UNCHANGED <<previous, cls, controls, restarts, superseded, pages, embed_links, is_compact, ctx, author,
                   message, controller, running, tasks, st, run, adder, stop_action,
                   error, msg_alive, shown, sends, deletes, clears>>

\* Paginator.get_input: a message passes the check.  int(message.content)
\* raises ValueError for text that is no number: the lock is released and the
\* task ends with the exception.  Otherwise the index is set and the two
\* deletions begin, with `message` bound.
PagInputReplyOf(m) ==
    /\ cls = "Paginator"
    /\ \E h \in BagToSet(handlers) :
        /\ h.pc = "input_wait"
        /\ InputCheck(m)
        /\ IF m.digit
           THEN /\ index' = InputIndex(index, m.n, Len(pages))
                /\ handlers' = Spawn(Ended(handlers, h), Handler("cleanup", h.fallback, 1))
                /\ UNCHANGED <<lock, error>>
           ELSE /\ handlers' = Ended(handlers, h)
                /\ lock' = FALSE
                /\ error' = "ValueError"
                /\ index' = index
    /\ UNCHANGED <<previous, cls, controls, restarts, superseded, pages, embed_links, is_compact, ctx, author,
                   message, controller, running, tasks, st, run, adder, stop_action,
                   msg_alive, shown, sends, deletes, clears>>

PagInputReply == \E m \in Replies : PagInputReplyOf(m)

\* Paginator.get_input: asyncio.TimeoutError after 30 seconds; the notice is
\* sent and the deletions begin, with `message` never bound.
PagInputTimeout ==
    /\ cls = "Paginator"
    /\ \E h \in BagToSet(handlers) :
        /\ h.pc = "input_wait"
        /\ handlers' = Spawn(Ended(handlers, h), Handler("cleanup", h.fallback, 0))
    /\ UNCHANGED <<lock, previous, cls, controls, restarts, superseded, pages, embed_links, is_compact, ctx, author,
                   message, index, controller, running, tasks, st, run, adder,
                   stop_action, error, msg_alive, shown, sends, deletes,
                   clears>>

\* Paginator.get_input: `await msg.delete()` then `await message.delete()`.
\* discord.HTTPException from either is passed over.  When msg.delete()
\* returns on the timeout path, `message` is unbound: UnboundLocalError ends
\* the task.  In every case the lock is released; unless the task ended,
\* controller goes on.
PagInputCleanup ==
    /\ cls = "Paginator"
    /\ \E h \in BagToSet(handlers), ok \in BOOLEAN :
        /\ h.pc = "cleanup"
        /\ lock' = FALSE
        /\ IF ok /\ h.page = 0
           THEN /\ handlers' = Ended(handlers, h)
                /\ error' = "UnboundLocalError"
                /\ index' = index
           ELSE /\ ControllerTail(h, Ended(handlers, h))
                /\ error' = error
    /\ UNCHANGED <<previous, cls, controls, restarts, superseded, pages, embed_links, is_compact, ctx, author,
                   message, controller, running, tasks, st, run, adder, stop_action,
                   msg_alive, shown, sends, deletes, clears>>

PagNext ==
    \/ PagConstruct
    \/ PagStart
    \/ PagStartSent
    \/ PagAddReactions
    \/ PagReceive
    \/ PagTimeout
    \/ PagRunCancelled
    \/ PagEditReturn
    \/ PagDeleteReturn
    \/ PagLockSent
    \/ PagInputReply
    \/ PagInputTimeout
    \/ PagInputCleanup

----------------------------------------------------------------------------
(* Paginator of the package (pygicord/__init__.py), "Legacy" here *)

\* __reactions as built by __init__: emoji -> value.  type is the Python
\* type of the value (the value of the last-page key is None until paginate
\* sets it), val its number, control the name of what it does.
LegacyReactions ==
    << [emoji |-> "rewind", control |-> "first", type |-> "float", val |-> 0],
       [emoji |-> "left", control |-> "previous", type |-> "int", val |-> -1],
       [emoji |-> "square", control |-> "close", type |-> "str", val |-> 0],
       [emoji |-> "right", control |-> "next", type |-> "int", val |-> 1],
       [emoji |-> "forward", control |-> "last", type |-> "NoneType", val |-> 0],
       [emoji |-> "numbers", control |-> "input", type |-> "str", val |-> 0] >>

\* __init__: the three keys deleted when compact
LegacyCompact(rs) ==
    SelectSeq(rs, LAMBDA r : r.emoji \notin {"rewind", "forward", "numbers"})

\* paginate: self.__reactions[last-page key] = self.end, which puts the key
\* back (at the end of the dict) had it been deleted.
LegacySetEnd(rs, end) ==
    IF "forward" \in Keys(rs)
    THEN [i \in 1..Len(rs) |->
            IF rs[i].emoji = "forward"
            THEN [rs[i] EXCEPT !.type = "float", !.val = end]
            ELSE rs[i]]
    ELSE Append(rs, [emoji |-> "forward", control |-> "last", type |-> "float",
                     val |-> end])

\* Paginator.check of the package
LegacyCheck(payload) ==
    /\ payload.message_id = message
    /\ payload.user_id = Author
    /\ payload.emoji \in Keys(controller)

\* Paginator.controller of the package, the branches for numbers: an int is
\* added and taken back when the sum leaves [0, end]; anything else is
\* converted with int().
LegacyControllerIndex(react, current, end) ==
    IF react.type = "int"
    THEN IF current + react.val < 0 \/ current + react.val > end
         THEN current
         ELSE current + react.val
    ELSE react.val

\* got_to_page(number)
got_to_page(number, end) ==
    (IF number > end + 1 THEN end + 1 ELSE number) - 1

\* embeds[i] with Python's indexing: -1 is the last element.
PyIndex(i, n) == IF i < 0 THEN n + i ELSE i

\* Paginator.__init__(pages=p, compact=c) of the package: nothing is
\* validated, the running flag is set, a list of two pages forces compact.
LegacyConstruct ==
    /\ cls = None
    /\ \E p \in PageInputs, c \in BOOLEAN :
        /\ p.bare => p.items = <<"embed">>
        /\ cls' = "Legacy"
        /\ pages' = p.items
        /\ st' = IF p.bare THEN "constructed_bare" ELSE "constructed"
        /\ is_compact' = (c \/ (~p.bare /\ Len(p.items) = 2))
        /\ controller' = IF c \/ (~p.bare /\ Len(p.items) = 2)
                         THEN LegacyCompact(LegacyReactions)
                         ELSE LegacyReactions
    /\ running' = TRUE
    /\ UNCHANGED <<other, controls, restarts, superseded, embed_links, ctx, author, message, index,
                   tasks, run, adder, stop_action, error, msg_alive, shown, sends,
                   deletes, clears>>

\* Paginator.paginate(ctx) of the package.  A bare embed is sent and
\* returned.  Otherwise the embeds of the list are kept; `self.embeds is
\* None` is never true of a list; the paginator task is created.
LegacyPaginate ==
    /\ cls = "Legacy"
    /\ st \in {"constructed", "constructed_bare"}
    /\ st' = "returned"
    /\ ctx' = [guild |-> TRUE, perms |-> Caps]
    /\ IF st = "constructed_bare"
       THEN /\ sends' = sends + 1
            /\ UNCHANGED <<pages, controller, tasks, run>>
       ELSE LET embeds == SelectSeq(pages, LAMBDA x : x = "embed")
            IN /\ pages' = embeds
               /\ controller' = IF is_compact THEN controller
                                ELSE LegacySetEnd(controller, Len(embeds) - 1)
               /\ tasks' = <<"run">>
               /\ run' = "new"
               /\ sends' = sends
    /\ UNCHANGED <<other, cls, controls, restarts, superseded, embed_links, is_compact, author, message, index,
                   running, adder, stop_action, error, msg_alive, shown, deletes,
                   clears>>

\* Paginator.paginator of the package up to its first wait: the first embed
\* is sent (IndexError of embeds[0] is suppressed and self.embed stays None);
\* with more than one embed the add_reactions task is created.
LegacyPaginatorStart ==
    /\ cls = "Legacy"
    /\ run = "new"
    /\ run' = "wait"
    /\ IF Len(pages) = 0
       THEN UNCHANGED <<message, msg_alive, shown, sends>>
       ELSE /\ message' = SessionMsg
            /\ msg_alive' = TRUE
            /\ shown' = 0
            /\ sends' = sends + 1
    /\ IF Len(pages) > 1
       THEN /\ tasks' = Append(tasks, "add")
            /\ adder' = "adding"
       ELSE UNCHANGED <<tasks, adder>>
    /\ UNCHANGED <<other, cls, controls, restarts, superseded, pages, embed_links, is_compact, ctx, author, index,
                   controller, running, st, stop_action, error, deletes, clears>>

\* add_reactions of the package: the indicator edits and one add_reaction
\* per key; Forbidden or HTTPException ends it early.
LegacyAddReactions ==
    /\ cls = "Legacy"
    /\ AddReactions
    /\ UNCHANGED <<other, cls, controls, restarts, superseded, pages, embed_links, is_compact, ctx, author, message,
                   index, controller, running, tasks, st, run, stop_action, error,
                   msg_alive, shown, sends, deletes, clears>>

\* paginator: the wait returns `payload`, which passed check;
\* self.previous = self.current; controller(reaction) up to its first await,
\* or to its end for the branches without one, and then the comparison of
\* previous and current.  While self.embed is None check raises
\* AttributeError for every event, `with suppress(Exception)` passes over it
\* and the loop waits again.
LegacyReceiveOf(payload) ==
    /\ cls = "Legacy"
    /\ run = "wait"
    /\ IF message = None
       THEN UNCHANGED <<previous, index, run, deletes>>
       ELSE /\ LegacyCheck(payload)
            /\ previous' = index
            /\ LET react == ControlOf(controller, payload.emoji)
                   current == LegacyControllerIndex(react, index, Len(pages) - 1)
               IN CASE react.control = "close" ->
                         /\ deletes' = deletes + 1
                         /\ run' = "closing"
                         /\ index' = index
                    [] react.control = "input" ->
                         /\ run' = "input_wait"
                         /\ UNCHANGED <<index, deletes>>
                    [] OTHER ->
                         /\ index' = current
                         /\ run' = IF current = index THEN "wait" ELSE "editing"
                         /\ deletes' = deletes
    /\ UNCHANGED <<handlers, lock, cls, controls, restarts, superseded, pages, embed_links, is_compact, ctx, author,
                   message, controller, running, tasks, st, adder, stop_action,
                   error, msg_alive, shown, sends, clears>>

LegacyReceive == \E payload \in Payloads(PagEmojis) : LegacyReceiveOf(payload)

\* controller, the input branch: a message passes the check and
\* got_to_page(int(message.content)) sets current; or the 30 seconds pass.
\* Then delete_messages (any exception suppressed) and, back in paginator,
\* the comparison of previous and current.
LegacyInputReturnOf(timed_out, m) ==
    /\ cls = "Legacy"
    /\ run = "input_wait"
    /\ LET current == IF timed_out THEN index
                       ELSE got_to_page(m.n, Len(pages) - 1)
        IN /\ timed_out \/ (m.author = Author /\ m.channel = "c" /\ m.digit)
           /\ index' = current
           /\ run' = IF current = previous THEN "wait" ELSE "editing"
    /\ UNCHANGED <<other, cls, controls, restarts, superseded, pages, embed_links, is_compact, ctx, author, message,
                   controller, running, tasks, st, adder, stop_action, error,
                   msg_alive, shown, sends, deletes, clears>>

LegacyInputReturn ==
    \E timed_out \in BOOLEAN, m \in Replies : LegacyInputReturnOf(timed_out, m)

\* paginator: `await self.embed.edit(embed=self.embeds[self.current])`
\* under suppress(Exception): the edit succeeds, or the index is out of
\* range or the platform refuses, and the loop goes on either way.
LegacyEditReturn ==
    /\ cls = "Legacy"
    /\ run = "editing"
    /\ run' = "wait"
    /\ \E ok \in BOOLEAN :
        LET i == PyIndex(index, Len(pages))
        IN shown' = IF ok /\ 0 <= i /\ i < Len(pages) THEN i ELSE shown
    /\ UNCHANGED <<other, cls, controls, restarts, superseded, pages, embed_links, is_compact, ctx, author, message,
                   index, controller, running, tasks, st, adder, stop_action, error,
                   msg_alive, sends, deletes, clears>>

\* paginator: the wait times out,
\* `return await self.close_paginator(self.embed, timed_out=True)`.  While
\* self.embed is None, None.clear_reactions raises AttributeError, which
\* close_paginator lets through and the loop's suppress(Exception) passes
\* over: the flag stays set and the loop waits again.
LegacyTimeout ==
    /\ cls = "Legacy"
    /\ run = "wait"
    /\ IF message = None
       THEN UNCHANGED <<run, clears>>
       ELSE /\ run' = "clearing"
            /\ clears' = clears + 1
    /\ UNCHANGED <<other, cls, controls, restarts, superseded, pages, embed_links, is_compact, ctx, author, message,
                   index, controller, running, tasks, st, adder, stop_action, error,
                   msg_alive, shown, sends, deletes>>

\* close_paginator: message.delete() / clear_reactions() returns or raises
\* HTTPException (suppressed); the flag is cleared, every task of __tasks is
\* cancelled, the paginator task among them, and the list is cleared.
LegacyCloseReturn ==
    /\ cls = "Legacy"
    /\ run \in {"closing", "clearing"}
    /\ \E ok \in BOOLEAN :
        /\ msg_alive' = IF ok /\ run = "closing" THEN FALSE ELSE msg_alive
        /\ CancelTasks(ok /\ run = "closing")
    /\ running' = FALSE
    /\ run' = "done"
    /\ UNCHANGED <<other, cls, controls, restarts, superseded, pages, embed_links, is_compact, ctx, author, message,
                   index, controller, st, stop_action, error, shown, sends, deletes,
                   clears>>

LegacyNext ==
    \/ LegacyConstruct
    \/ LegacyPaginate
    \/ LegacyPaginatorStart
    \/ LegacyAddReactions
    \/ LegacyReceive
    \/ LegacyInputReturn
    \/ LegacyEditReturn
    \/ LegacyTimeout
    \/ LegacyCloseReturn

Next == BaseNext \/ PagNext \/ LegacyNext

Spec == Init /\ [][Next]_vars

\* The sessions of class Base alone.
SpecBase == Init /\ [][BaseNext]_vars

\* Sessions of class Base on which start is called more than once.
BaseRestartNext == BaseNext \/ BaseRestart \/ BaseSupersededTeardown

SpecBaseRestart == Init /\ [][BaseRestartNext]_vars

\* Base.author is a public attribute declared Optional; None is the value
\* _check tests for (`self.author is None`).  The owner of a started session
\* (a callback of a control, or the command that holds the instance) assigns
\* None to it.
BaseAuthorUnset ==
    /\ cls = "Base"
    /\ st = "returned"
    /\ author # None
    /\ author' = None
    /\ UNCHANGED <<other, cls, controls, restarts, superseded, pages,
                   embed_links, is_compact, ctx, message, index, controller,
                   running, tasks, st, run, adder, stop_action, error,
                   msg_alive, shown, sends, deletes, clears>>

BaseUnlockedNext == BaseNext \/ BaseAuthorUnset

SpecBaseUnlocked == Init /\ [][BaseUnlockedNext]_vars

\* The same sessions on a running event loop: the timeout of asyncio.wait
\* fires when no event completes the wait, the requests awaited (edit,
\* delete, clear_reactions) return or raise, and a cancelled task is resumed.
SpecBaseFair ==
    /\ Init
    /\ [][BaseRestartNext]_vars
    /\ WF_vars(BaseTimeout)
    /\ WF_vars(BaseEditReturn)
    /\ WF_vars(BaseCleanupReturn)
    /\ WF_vars(BaseSupersededTeardown)

----------------------------------------------------------------------------
(* Properties *)

AllEmojis == PagEmojis \cup BaseEmojis

NavControls == {"first", "previous", "next", "last"}

\* What a navigation press is to do to index idx of n pages.
NavExpected(control, idx, n) ==
    CASE control = "first" -> 0
      [] control = "previous" -> IF idx = 0 THEN idx ELSE idx - 1
      [] control = "next" -> IF idx = n - 1 THEN idx ELSE idx + 1
      [] control = "last" -> n - 1

HasEmbed(ps) == \E i \in 1..Len(ps) : ps[i] = "embed"

\* C1: a reaction event is handed to a control (Base: dispatched; Paginator:
\* a controller task is created for it) only if its message is the
\* session's, its actor is not the bot, its symbol is a key of the active
\* control set and the lock-owner is unset or is the actor.
C1_HandedOnlyIfMatching ==
    [][\A p \in Payloads(AllEmojis) :
          (PagReceiveOf(p) \/ (\E i \in -1..Len(pages) : BaseReceiveOf(p, i)))
              => /\ p.message_id = message
                 /\ p.user_id # Bot
                 /\ p.emoji \in Keys(controller)
                 /\ (author = None \/ p.user_id = author)]_vars

\* C2: once a stop control has been dispatched (Base: StopPagination with
\* DELETE_MESSAGE is being handled; Paginator: stop() has cancelled the
\* dispatch loop from a controller task), message.delete has been called
\* exactly once, and when the termination is over the running flag is false
\* and the task list is empty.
C2_StopDeletesOnce ==
    /\ (cls = "Base" /\ stop_action = "DELETE_MESSAGE")
         => /\ deletes = 1
            /\ clears = 0
            /\ run \in {"deleting", "done"}
            /\ (run = "done" => ~running /\ tasks = <<>>)
    /\ (cls = "Paginator" /\ run = "cancelled")
         => /\ deletes = 1
            /\ ~running
            /\ tasks = <<>>

C2_Witness ==
    /\ cls = "Base"
    /\ stop_action = "DELETE_MESSAGE"
    /\ run = "done"
    /\ deletes = 1
    /\ ~running
    /\ tasks = <<>>

\* C3: in Base, when the wait of the dispatch loop has timed out, the
\* session terminates with the clear-reactions cleanup:
\* message.clear_reactions has been called (once) and message.delete never.
C3_BaseTimeoutClears ==
    (cls = "Base" /\ stop_action = "CLEAR_REACTIONS")
        => /\ clears = 1
           /\ deletes = 0
           /\ run \in {"clearing", "done"}
           /\ (run = "done" => ~running /\ tasks = <<>>)

C3_Witness ==
    /\ cls = "Base"
    /\ stop_action = "CLEAR_REACTIONS"
    /\ run = "done"
    /\ clears = 1
    /\ deletes = 0

\* C4: in the Paginator of paginator.py, when the wait of the dispatch loop
\* has timed out, the reactions have been cleared and message.delete has not
\* been called.
C4_PaginatorTimeoutClears ==
    (cls = "Paginator" /\ run \in {"stopping", "stopped"})
        => /\ clears = 1
           /\ deletes = 0

\* C5: in every state of a constructed Base session, 0 <= index <= len(pages)-1.
C5_BaseIndexInRange ==
    (cls = "Base" /\ st # "raised" /\ st # "none")
        => (0 <= index /\ index <= Len(pages) - 1)

C5_Witness ==
    /\ cls = "Base"
    /\ Len(pages) = MaxPages
    /\ index = Len(pages) - 1
    /\ shown = index
    /\ run = "wait"

\* C6: a navigation press on a valid index sets the index to what the
\* pressed control stands for (previous: one less unless 0; next: one more
\* unless last; first: 0; last: the final index), and starts a message edit
\* exactly when the index has changed; previous, previous, next from index 2
\* of 5 pages gives index 1.
C6_Navigation ==
    [][/\ \A p \in Payloads(AllEmojis) :
            LET control == ReactionsGet(controller, p.emoji)
                n == Len(pages)
            IN /\ (PagReceiveOf(p) /\ control \in NavControls)
                     => /\ index' = NavExpected(control, index, n)
                        /\ IF index' = index
                           THEN handlers' = handlers
                           ELSE handlers' = Spawn(handlers, Handler("editing", 0, index'))
               /\ (LegacyReceiveOf(p) /\ message # None /\ control \in NavControls
                   /\ 0 <= index /\ index < n)
                     => /\ index' = NavExpected(control, index, n)
                        /\ run' = IF index' = index THEN "wait" ELSE "editing"
       /\ ControllerIndex("next",
             ControllerIndex("previous", ControllerIndex("previous", 2, 5), 5), 5) = 1
       /\ ControllerIndex("previous", 0, 5) = 0
      ]_vars

C6_Witness ==
    /\ cls = "Paginator"
    /\ Len(pages) = 5
    /\ index = 1
    /\ shown = 2
    /\ BagToSet(handlers) = {Handler("editing", 0, 1)}

\* C7: start of a session of at most one page sends the page, attaches no
\* reactions, creates no task and leaves the running flag false, for good;
\* start of a session of more than one page creates both tasks and sets the
\* flag.
C7_SinglePageNoTasks ==
    /\ []((cls \in {"Base", "Paginator"} /\ st = "returned" /\ Len(pages) <= 1)
            => /\ sends = 1
               /\ message = SessionMsg
               /\ shown = 0
               /\ adder = "none"
               /\ run = "none"
               /\ tasks = <<>>
               /\ ~running)
    /\ [][(BaseStartSent \/ PagStartSent)
            => IF Len(pages) <= 1
               THEN tasks' = <<>> /\ ~running' /\ adder' = "none" /\ run' = "none"
               ELSE /\ tasks' = <<"run", "add">>
                    /\ running'
                    /\ run' = "wait"
                    /\ adder' = "adding"]_vars

C7_Witness ==
    /\ cls = "Base"
    /\ st = "returned"
    /\ Len(pages) = 1
    /\ sends = 1
    /\ tasks = <<>>
    /\ ~running

\* The capabilities Base.start needs, in the order they are tested.
Required(el, n) ==
    <<"send_messages">>
    \o (IF el THEN <<"embed_links">> ELSE <<>>)
    \o (IF n > 1
        THEN <<"add_reactions", "use_external_emojis", "read_message_history">>
        ELSE <<>>)

ErrorOf(cap) ==
    CASE cap = "send_messages" -> "CannotSendMessages"
      [] cap = "embed_links" -> "CannotEmbedLinks"
      [] cap = "add_reactions" -> "CannotAddReactions"
      [] cap = "use_external_emojis" -> "CannotUseExternalEmojis"
      [] cap = "read_message_history" -> "CannotReadMessageHistory"

\* C8: Base.start in a guild channel where a required capability is missing
\* (send-messages always, the three reaction capabilities exactly when there
\* is more than one page) raises the error of the first missing one, sends
\* nothing, creates no task and leaves the flag false; otherwise it goes on
\* to send the first page.
C8_PermissionGate ==
    /\ []((cls = "Base" /\ st = "raised" /\ Len(pages) > 0)
            => /\ sends = 0
               /\ message = None
               /\ tasks = <<>>
               /\ run = "none"
               /\ adder = "none"
               /\ ~running)
    /\ [][BaseStart
            => LET req == Required(embed_links, Len(pages))
                   missing == {i \in 1..Len(req) : req[i] \notin ctx'.perms}
               IN IF ctx'.guild /\ missing # {}
                  THEN /\ st' = "raised"
                       /\ error' = ErrorOf(req[CHOOSE i \in missing :
                                                 \A j \in missing : i <= j])
                       /\ sends' = 0
                  ELSE /\ st' = "sending"
                       /\ error' = None]_vars

C8_Witness ==
    /\ cls = "Base"
    /\ st = "raised"
    /\ ctx.guild
    /\ "send_messages" \in ctx.perms
    /\ {"use_external_emojis", "read_message_history"} \cap ctx.perms = {}
    /\ error = "CannotUseExternalEmojis"
    /\ sends = 0

\* C9, as stated: CannotEmbedLinks is raised only for a session with at
\* least one embed page.
C9_EmbedLinksOnlyForEmbeds ==
    (cls \in {"Base", "Paginator"} /\ error = "CannotEmbedLinks") => HasEmbed(pages)

\* C9, amended: the Paginator of paginator.py requires embed-links exactly
\* when some page is an embed; Base requires it exactly when its embed_links
\* option is set (the default), whatever the pages are.  So where only
\* embed-links is missing, start goes on to send the first page exactly for a
\* Paginator without embed pages and for a Base built with embed_links=False.
C9_EmbedLinksRequirement ==
    /\ []((cls = "Paginator" /\ error = "CannotEmbedLinks") => HasEmbed(pages))
    /\ []((cls = "Base" /\ error = "CannotEmbedLinks") => embed_links)
    /\ [][/\ (PagStart /\ ctx'.perms = Caps \ {"embed_links"} /\ Len(pages) > 0)
               => IF HasEmbed(pages)
                  THEN st' = "raised" /\ error' = "CannotEmbedLinks"
                  ELSE st' = "sending"
          /\ (BaseStart /\ ctx'.guild /\ ctx'.perms = Caps \ {"embed_links"})
               => IF embed_links
                  THEN st' = "raised" /\ error' = "CannotEmbedLinks"
                  ELSE st' = "sending"]_vars

C9_Witness ==
    /\ cls = "Paginator"
    /\ ~HasEmbed(pages)
    /\ Len(pages) = 2
    /\ ctx.perms = Caps \ {"embed_links"}
    /\ st = "returned"
    /\ running

\* C10: a session whose page list is empty has failed with a configuration
\* error (ValueError from Base's constructor, EmptyPages from paginate of the
\* package's Paginator) with nothing sent, no task created and no dispatch
\* loop running.
C10_EmptyPagesFailFast ==
    /\ (cls = "Base" /\ Len(pages) = 0)
         => /\ error = "ValueError"
            /\ st = "raised"
            /\ sends = 0
            /\ tasks = <<>>
            /\ run = "none"
    /\ (cls = "Legacy" /\ Len(pages) = 0 /\ st = "returned")
         => /\ error = "EmptyPages"
            /\ sends = 0
            /\ tasks = <<>>
            /\ run = "none"

\* C11: a stop press by a user other than the session's author never
\* terminates the session and never deletes the message: no step that hands
\* an event of another user to a control clears the running flag or calls
\* message.delete.
C11_StopAuthorOnly ==
    [][\A p \in Payloads(AllEmojis) :
          (/\ p.user_id # Author
           /\ (PagReceiveOf(p) \/ (\E i \in -1..Len(pages) : BaseReceiveOf(p, i))))
              => /\ running' = running
                 /\ deletes' = deletes]_vars

LockPress(p) == PagReceiveOf(p) /\ ReactionsGet(controller, p.emoji) = "lock"

\* C12: in the Paginator of paginator.py the lock-owner is unset or the
\* author; a lock press of the author while the advisory lock is free toggles
\* it and takes the lock; a lock press of anyone else, or one that arrives
\* while the lock is held, changes nothing; and after start nothing but such
\* a press changes the lock-owner.
C12_LockToggle ==
    /\ [](cls = "Paginator" => author \in {None, Author})
    /\ [][/\ \A p \in Payloads(AllEmojis) :
               LockPress(p)
                  => IF ~lock /\ p.user_id = Author
                     THEN /\ author' = (IF author = Author THEN None ELSE Author)
                          /\ lock'
                     ELSE /\ author' = author
                          /\ lock' = lock
                          /\ handlers' = handlers
          /\ (cls = "Paginator" /\ st = "returned" /\ author' # author)
               => \E p \in Payloads(AllEmojis) :
                     LockPress(p) /\ ~lock /\ p.user_id = Author]_vars

\* The first of two presses is being processed: the owner has been toggled
\* to unset, the lock is held and the loop is waiting for the next event.
C12_Witness ==
    /\ cls = "Paginator"
    /\ author = None
    /\ lock
    /\ run = "wait"
    /\ \E h \in BagToSet(handlers) : h.pc = "lock_send"

\* C13: a numeric reply n to the jump-to-page prompt, given while the index
\* is valid, leaves a valid index: the last page when n exceeds the page
\* count, n - 1 when 1 <= n <= page count, and an index in range otherwise.
C13_NumericReplyInBounds ==
    [][\A m \in Replies :
          (/\ m.digit
           /\ index \in 0..(Len(pages) - 1)
           /\ (PagInputReplyOf(m) \/ LegacyInputReturnOf(FALSE, m)))
              => /\ index' \in 0..(Len(pages) - 1)
                 /\ m.n > Len(pages) => index' = Len(pages) - 1
                 /\ m.n \in 1..Len(pages) => index' = m.n - 1
                 /\ error' = error]_vars

\* C14: a message that is not a number never completes a pending
\* jump-to-page prompt: no step takes such a message out of the prompt's
\* wait, whether the session is locked or unlocked.
C14_NonNumericRejected ==
    [][\A m \in Replies :
          ~m.digit => ~(PagInputReplyOf(m) \/ LegacyInputReturnOf(FALSE, m))]_vars

PromptTasks(hs) == {h \in BagToSet(hs) : h.pc \in {"input_wait", "cleanup"}}

PromptCount(hs) == BagCardinality([h \in PromptTasks(hs) |-> CopiesIn(h, hs)])

InputPress(p) == PagReceiveOf(p) /\ ReactionsGet(controller, p.emoji) = "input"

\* C15: a session of paginator.py has at most one jump-to-page prompt open,
\* the advisory lock is held while it is open, and a jump-to-page press that
\* arrives meanwhile starts no second prompt and leaves the index alone.
C15_OnePrompt ==
    /\ [](cls = "Paginator" => /\ PromptCount(handlers) <= 1
                               /\ PromptCount(handlers) = 1 => lock)
    /\ [][\A p \in Payloads(AllEmojis) :
             (InputPress(p) /\ PromptCount(handlers) > 0)
                => /\ handlers' = handlers
                   /\ index' = index
                   /\ lock' = lock]_vars

\* A prompt is open and the loop is ready to receive a jump-to-page press.
C15_Witness ==
    /\ cls = "Paginator"
    /\ run = "wait"
    /\ lock
    /\ BagCardinality(handlers) < MaxHandlers
    /\ \E h \in BagToSet(handlers) : h.pc = "input_wait"
    /\ \E p \in Payloads(AllEmojis) :
          PagCheck(p) /\ ReactionsGet(controller, p.emoji) = "input"

\* The first predicate of a list that fails for a payload, or the length of
\* the list when none does.
FirstFailing(preds, p) ==
    IF \E k \in 1..Len(preds) : ~InvokePred(preds[k], p)
    THEN CHOOSE k \in 1..Len(preds) :
            /\ ~InvokePred(preds[k], p)
            /\ \A j \in 1..(k - 1) : InvokePred(preds[j], p)
    ELSE Len(preds)

AllInvokePass(c, p) == \A k \in 1..Len(c.invoke) : InvokePred(c.invoke[k], p)

AllDisplayPass(c, n) == \A k \in 1..Len(c.display) : DisplayPred(c.display[k], n)

\* C17: should_display is true of a control and a session exactly when every
\* display predicate attached to the control is, and true of a control with
\* none attached; the controls a started session with more than one page
\* keeps are those of its class for which that is so.
C17_ShouldDisplay ==
    cls = "Base" =>
        /\ \A c \in Range(controls) :
              /\ should_display(c, Len(pages)) <=> AllDisplayPass(c, Len(pages))
              /\ c.display = <<>> => should_display(c, Len(pages))
        /\ (st = "returned" /\ Len(pages) > 1)
              => Range(controller)
                   = {c \in Range(get_controller(controls)) :
                         AllDisplayPass(c, Len(pages))}

\* A started session of two pages whose class declares the home control:
\* its first display predicate fails and its second passes; it is left
\* out, and goto, which has no predicate, is kept.
C17_Witness ==
    /\ cls = "Base"
    /\ st = "returned"
    /\ Len(pages) = 2
    /\ \E c \in Range(controls) :
          /\ c.emoji = "home"
          /\ ~DisplayPred(c.display[1], Len(pages))
          /\ DisplayPred(c.display[2], Len(pages))
    /\ "home" \notin Keys(controller)
    /\ "goto" \in Keys(controller)

Symbols(decls) == {decls[i].emoji : i \in 1..Len(decls)}

Places(decls, e) == {i \in 1..Len(decls) : decls[i].emoji = e}

FirstPlace(decls, e) == CHOOSE i \in Places(decls, e) : \A j \in Places(decls, e) : i <= j

LastPlace(decls, e) == CHOOSE i \in Places(decls, e) : \A j \in Places(decls, e) : j <= i

\* The controls in force: of each symbol the declaration made last.
InForce(decls) == {decls[LastPlace(decls, e)] : e \in Symbols(decls)}

ComesBefore(decls, a, b) ==
    \/ a.position < b.position
    \/ /\ a.position = b.position
       /\ FirstPlace(decls, a.emoji) < FirstPlace(decls, b.emoji)

\* C18: the control set of a started Base session with more than one page
\* holds one control per symbol declared on its class or an ancestor, of
\* each symbol the declaration of the most derived class, less those with a
\* failing display predicate, by ascending position, controls of one
\* position in the order in which their symbols were first declared; and no
\* event is dispatched to a control that is not in the set.
C18_ControlResolution ==
    /\ [](cls = "Base" /\ st = "returned" /\ Len(pages) > 1
            => /\ Range(controller)
                    = {c \in InForce(controls) : AllDisplayPass(c, Len(pages))}
               /\ \A i, j \in 1..Len(controller) :
                     i < j => ComesBefore(controls, controller[i], controller[j]))
    /\ [][\A p \in Payloads(BaseEmojis), i \in -1..Len(pages) :
             (/\ BaseReceiveOf(p, i)
              /\ \A c \in InForce(controls) :
                    c.emoji = p.emoji => ~AllDisplayPass(c, Len(pages)))
                 => /\ index' = index
                    /\ run' = run
                    /\ stop_action' = stop_action
                    /\ deletes' = deletes]_vars

\* A started session of the derived class with all three controls: the
\* derived stop control stands where the inherited one was declared, before
\* the home control of the same position.
C18_Witness ==
    /\ cls = "Base"
    /\ st = "returned"
    /\ Len(controls) = 4
    /\ Len(controller) = 3
    /\ controller[1].emoji = "goto"
    /\ controller[2].emoji = "stop"
    /\ controller[2].invoke # <<"stop_invoke_if">>
    /\ controller[3].emoji = "home"
    /\ adder = "done"

\* The controls a started session of paginator.py attaches and dispatches
\* to: those of _reactions once start has created the tasks.
ActiveControls ==
    IF should_add_reactions(Len(pages))
    THEN {controller[i].control : i \in 1..Len(controller)}
    ELSE {}

\* C19: after start, a session of paginator.py with at most three pages has
\* neither the first-page nor the last-page control, whatever is_compact,
\* and dispatches no event to either; one with more than three pages and
\* is_compact false has both.
C19_CompactUpToThree ==
    /\ []((cls = "Paginator" /\ st = "returned")
            => /\ Len(pages) <= 3
                    => ActiveControls \cap {"first", "last"} = {}
               /\ (Len(pages) > 3 /\ ~is_compact)
                    => {"first", "last"} \subseteq ActiveControls)
    /\ [][\A p \in Payloads(AllEmojis) :
             (PagReceiveOf(p) /\ Len(pages) <= 3)
                => ReactionsGet(controller, p.emoji) \notin {"first", "last"}]_vars

\* Three pages, is_compact false: the reactions are attached and the
\* first-page and last-page emojis are not among them, previous and next are.
C19_Witness ==
    /\ cls = "Paginator"
    /\ st = "returned"
    /\ Len(pages) = 3
    /\ ~is_compact
    /\ adder = "done"
    /\ {"rewind", "forward"} \cap Keys(controller) = {}
    /\ {"left", "right"} \subseteq Keys(controller)

\* C20: a started session of paginator.py with four pages and the default
\* options has exactly the controls first, previous, stop, next, last and
\* input, in that order.
C20_DefaultSetOfFour ==
    (cls = "Paginator" /\ st = "returned" /\ Len(pages) = 4 /\ ~is_compact)
        => [i \in 1..Len(controller) |-> controller[i].control]
              = <<"first", "previous", "stop", "next", "last", "input">>

\* An index brought into the range of a list of n pages.
Clamped(i, n) == IF i < 0 THEN 0 ELSE IF i > n - 1 THEN n - 1 ELSE i

\* C21: Base.show_page(i) sets the index to i brought into [0, pageCount-1]
\* (the last page for an index past the end, the first for a negative one)
\* before it edits the message.
C21_ShowPageClamps ==
    [][\A p \in Payloads(BaseEmojis), i \in -1..Len(pages) :
          (BaseReceiveOf(p, i) /\ run' = "editing")
             => index' = Clamped(i, Len(pages))]_vars

\* C22: in Base and in the Paginator of paginator.py the initial message,
\* showing page 0, has been sent and stored before the running flag is set,
\* before the dispatch loop waits and before a reaction is attached: the
\* flag is set only by the step that resumes start after the send.
C22_MessageBeforeRunning ==
    /\ [](cls \in {"Base", "Paginator"} /\ (running \/ run # "none" \/ adder # "none")
            => /\ sends >= 1
               /\ message = SessionMsg
               /\ Len(pages) > 0)
    /\ [][(cls \in {"Base", "Paginator"} /\ ~running /\ running')
            => /\ st = "sending"
               /\ sends >= 1
               /\ message' = SessionMsg
               /\ shown' = 0
               /\ index' = 0]_vars

\* Start has just returned: the message shows page 0, the flag is set, the
\* loop waits and the reactions are still to be attached.
C22_Witness ==
    /\ cls \in {"Base", "Paginator"}
    /\ st = "returned"
    /\ running
    /\ sends = 1
    /\ shown = 0
    /\ msg_alive
    /\ run = "wait"
    /\ adder = "adding"

\* A Base session that has stopped: start has returned, the dispatch loop
\* has ended, the flag is false and the task list is empty.
Stopped ==
    /\ cls = "Base"
    /\ st = "returned"
    /\ run \in {"done", "failed", "cancelled"}
    /\ superseded = "none"
    /\ ~running
    /\ tasks = <<>>

\* C23: a stopped Base session never runs again: no step, a later call of
\* start included, sets the running flag of a stopped session.
C23_StoppedStaysStopped ==
    [][Stopped => ~running']_vars

LoopLive(r) == r \in {"wait", "editing", "deleting", "clearing"}

LoopEnded(r) == r \in {"done", "failed", "cancelled"}

\* The step in which a dispatch-loop task of Base ends: by its own return or
\* exception, or by the cancellation a later start scheduled.
BaseLoopExits ==
    /\ cls = "Base"
    /\ \/ LoopLive(run) /\ LoopEnded(run')
       \/ superseded # "none" /\ superseded' = "none"

\* C24: when Base._run exits, by whatever path, the running flag is false
\* and the task list is empty with no task of it left running, and it stays
\* so while no start is called; on the empty list the task cleanup changes
\* nothing.
C24_RunExitCleansUp ==
    /\ [][BaseLoopExits
            => /\ ~running'
               /\ tasks' = <<>>
               /\ adder' \notin {"adding", "created"}]_vars
    /\ []((cls = "Base" /\ LoopEnded(run) /\ superseded = "none")
            => /\ ~running
               /\ tasks = <<>>
               /\ adder \notin {"adding", "created"}
               /\ ~ENABLED (CancelTasks(FALSE) /\ <<tasks', adder'>> # <<tasks, adder>>))

\* The loop has ended by an exception of a control's callback (the edit of
\* show_page failed) after the reactions were attached.
C24_Witness ==
    /\ cls = "Base"
    /\ run = "failed"
    /\ error = "HTTPException"
    /\ stop_action = None
    /\ adder = "done"
    /\ ~running
    /\ tasks = <<>>

\* C25: when message.delete or message.clear_reactions raises
\* discord.HTTPException in the termination of Base._run, no exception
\* leaves the task, the message is as it was, and the session ends with the
\* running flag false and its tasks cancelled.
C25_CleanupFailureSwallowed ==
    [][BaseCleanupReturnOf(FALSE)
          => /\ error' = error
             /\ run' = "done"
             /\ msg_alive' = msg_alive
             /\ ~running'
             /\ tasks' = <<>>
             /\ adder' # "adding"]_vars

\* The stop control was dispatched and the deletion failed: the message
\* still exists, no error is recorded and the session has ended.
C25_Witness ==
    /\ cls = "Base"
    /\ stop_action = "DELETE_MESSAGE"
    /\ deletes = 1
    /\ msg_alive
    /\ run = "done"
    /\ error = None
    /\ ~running
    /\ tasks = <<>>

\* C26: an event of the same user and symbol that follows a dispatched one
\* at once (the removal of a reaction just added) is not dispatched: right
\* after a step that dispatches an event to a control which acts, no step
\* that dispatches that event again with an effect is possible.
C26_SecondOfPairLost ==
    [][\A p \in Payloads(AllEmojis) :
          /\ (/\ PagReceiveOf(p)
              /\ ReactionsGet(controller, p.emoji) \in NavControls
              /\ index' # index)
                => ~(ENABLED <<PagReceiveOf(p)>>_vars)'
          /\ \A i \in -1..MaxPages :
                (BaseReceiveOf(p, i) /\ run' # run)
                   => ~(ENABLED <<BaseReceiveOf(p, i)>>_vars)']_vars

\* A started session of paginator.py with more than one page that has been
\* stopped: stop() has cleared the flag and cancelled the tasks of __tasks.
PagStopped ==
    /\ cls = "Paginator"
    /\ st = "returned"
    /\ Len(pages) > 1
    /\ ~running
    /\ tasks = <<>>

\* C27: once a session has stopped, no task of the session changes the index
\* or edits the message: the index and the page shown stay as they are.
C27_NothingRunsAfterStop ==
    [][(Stopped \/ PagStopped)
          => /\ index' = index
             /\ shown' = shown]_vars

\* C28: in a running session of paginator.py whose message exists, when the
\* task of a jump-to-page prompt ends and leaves no control handler in
\* progress, the message shows the page at the current index.
C28_ShownFollowsIndex ==
    [][(/\ PagInputCleanup
        /\ handlers' = EmptyBag
        /\ running'
        /\ msg_alive'
        /\ error' = None)
          => shown' = index']_vars

\* C29: while the running flag of a Base session is set its dispatch loop
\* is at a wait that can time out or at an await that returns (or its
\* cancellation is due); and if from some point on no reaction event is
\* dispatched, every running session comes to an end with the flag false and
\* the task list empty.
C29_QuietSessionTerminates ==
    /\ []((cls = "Base" /\ running) => (LoopLive(run) \/ superseded # "none"))
    /\ (<>[][~BaseReceive]_vars)
          => []((cls = "Base" /\ running) => <>(~running /\ tasks = <<>>))

\* A session that moved off its first page and then ended by the timeout.
C29_Witness ==
    /\ cls = "Base"
    /\ stop_action = "CLEAR_REACTIONS"
    /\ clears = 1
    /\ index > 0
    /\ run = "done"
    /\ ~running
    /\ tasks = <<>>

\* C30: every reaction event a waiting Base session takes from its wait and
\* hands to dispatch on its own message names a control of the active
\* control set, and taking the event leaves the loop without an error,
\* whoever sent it and whether the author is set or None.
C30_DispatchFindsControl ==
    [][\A p \in Payloads(BaseEmojis), i \in -1..MaxPages :
          BaseReceiveOf(p, i) =>
              /\ (p.message_id = message => p.emoji \in Keys(controller))
              /\ error' = error]_vars

\* C31: a call of Base.start on a session whose dispatch loop is still
\* running leaves the flag set with the two new tasks in the task list, and
\* the step in which the old, cancelled loop is torn down keeps the flag
\* set and the new tasks in the list, uncancelled.
C31_RestartKeepsOneLoop ==
    [][  /\ (BaseRestart /\ "run" \in Range(tasks) /\ LoopLive(run)
              /\ error' = error /\ should_add_reactions(Len(pages)))
            => (running' /\ tasks' = <<"run", "add">>)
         /\ (cls = "Base" /\ superseded # "none" /\ superseded' = "none")
            => /\ running'
               /\ tasks' = tasks
               /\ run' # "cancelled"
               /\ adder' # "cancelled"]_vars

\* C32: in a session of paginator.py a step that calls message.delete() is
\* a step of stop(): it has cleared the flag and cancelled and dropped the
\* tasks first, and it is the only such call of the session; and when the
\* stop that the timeout began inside the dispatch-loop task has ended, the
\* deletion has been carried out: the message is gone.
C32_StopDeletionCompletes ==
    [][  /\ (cls = "Paginator" /\ deletes' # deletes)
            => /\ deletes = 0
               /\ deletes' = 1
               /\ ~running'
               /\ tasks' = <<>>
         /\ (cls = "Paginator" /\ run = "stopping" /\ run' # run)
            => ~msg_alive']_vars

====
